---- MODULE Spec2Model ----
(***************************************************************************)
(* Model of meteora_dbc_py: the buy and sell entry points of               *)
(* meteora_dbc.py, which fetch a pool, estimate the swap on the bonding    *)
(* curve, build the 15-account swap instruction with its 24-byte payload   *)
(* and send it inside a list of instructions.                              *)
(*                                                                         *)
(* The environment of one call (the ledger's account bytes, the RPC        *)
(* node's answers, the random seed) is fixed by Init; Buy and Sell are the *)
(* two calls a client can make on it.  pool_utils, swap_estimate and       *)
(* common_utils are imported by meteora_dbc.py but are not part of the     *)
(* available source: their operators below follow spec.md.                 *)
(*                                                                         *)
(* TLC's integers are 32-bit: amounts range over 0 .. 10^8, and a 64-bit   *)
(* little-endian field is computed byte by byte, so its four high bytes    *)
(* are always zero here.  Float arithmetic of the source                   *)
(* (quote_in * 10 ** decimals, balance * (percentage / 100)) is modelled   *)
(* as exact arithmetic followed by truncation; on the arguments used here  *)
(* the two give the same integers.  quote_in is not negative.  Progress    *)
(* lines printed by the source are left out of `printed`; the lines that   *)
(* report an outcome are kept.                                             *)
(***************************************************************************)
EXTENDS Integers, Sequences, FiniteSets, TLC

VARIABLES
    pool_config,   \* what fetch_pool_config decodes from the ledger
    pool_state,    \* what fetch_pool_state decodes from the ledger
    ledger,        \* condition of the raw account bytes of the two accounts
    rpc,           \* answers of the RPC node and os.urandom during the call
    call,          \* the call made: op and arguments ("none" before it)
    curve,         \* local `curve` handed to the quotation function
    estimate,      \* local `estimate`
    accounts,      \* local `accounts` of the swap instruction
    data,          \* local `data`, the swap instruction payload (bytes)
    instructions,  \* local `instructions`
    sent,          \* instruction list given to client.send_transaction
    result,        \* return value of the call: "none", "True" or "False"
    printed,       \* outcome lines written to stdout
    raised         \* exception caught by the except clause ("none" if none)

vars == <<pool_config, pool_state, ledger, rpc, call, curve, estimate,
          accounts, data, instructions, sent, result, printed, raised>>

----------------------------------------------------------------------------
(* constants.py: addresses are sequences of strings.                       *)

METEORA_DBC_PROGRAM == <<"dbcij3LWUppWqq96dh6gJWwBifmcGfLSB5D4DuSMaqN">>
TOKEN_PROGRAM_ID    == <<"TokenkegQfeZyiNwAJbNbGKPFXCWuBvf9Ss623VQ5DA">>
POOL_AUTHORITY      == <<"FhVo3mqL8PW5pH5U2CN4XE33DokiyZnUwuGpH2hmHLuM">>
REFERRAL_TOKEN_ACC  == <<"dbcij3LWUppWqq96dh6gJWwBifmcGfLSB5D4DuSMaqN">>
EVENT_AUTH          == <<"8Ks12pbrD6PXxfty1hVQiE9sc289zgU1zHkvXhrSdriF">>
ACCOUNT_SPACE       == 165

\* payer_keypair.pubkey()
payer == <<"payer">>

----------------------------------------------------------------------------
(* Bounds of the model.                                                    *)

CurveCap == 3     \* slots of the configuration's curve array
MaxPrice == 3     \* generated curve points have sqrt_price in 0 .. MaxPrice

\* Fee rate denominator of the quotation (a fixed denominator in spec.md,
\* whose value the available source does not give); scaled to 10 so that
\* amount_in * cliff_fee_numerator stays within TLC's integers.
FEE_DENOMINATOR == 10

----------------------------------------------------------------------------
(* swap_estimate (spec.md 4.2, 4.3): the curve model and the quotation.    *)
(* A curve is a sequence of pairs <<sqrt_price, liquidity>>.  Amounts are  *)
(* integers and every division rounds down.                                *)

\* Curve construction: CurveError::Empty with fewer than two points,
\* CurveError::NonMonotonic unless prices strictly increase.
CurveError(c) ==
    IF Len(c) < 2 THEN "CurveError::Empty"
    ELSE IF \E i \in 1..(Len(c) - 1) : c[i][1] >= c[i + 1][1]
         THEN "CurveError::NonMonotonic"
    ELSE "none"

\* segments(): the ranges between consecutive points; a range carries the
\* liquidity of the point that closes it.
segments(c) ==
    [i \in 1..(Len(c) - 1) |->
        [lo |-> c[i][1], hi |-> c[i + 1][1], liquidity |-> c[i + 1][2]]]

\* locate(sqrt_price) for a rising price: the first segment that still has
\* room above the price (Len + 1 when the price is at the top of the curve).
locate_up(segs, p) ==
    IF \E i \in 1..Len(segs) : segs[i].hi > p
    THEN CHOOSE i \in 1..Len(segs) :
            /\ segs[i].hi > p
            /\ \A j \in 1..(i - 1) : segs[j].hi <= p
    ELSE Len(segs) + 1

\* locate(sqrt_price) for a falling price: the last segment that still has
\* room below the price (0 when the price is at the bottom of the curve).
locate_down(segs, p) ==
    IF \E i \in 1..Len(segs) : segs[i].lo < p
    THEN CHOOSE i \in 1..Len(segs) :
            /\ segs[i].lo < p
            /\ \A j \in (i + 1)..Len(segs) : segs[j].lo >= p
    ELSE 0

\* Base obtained when the price rises from p to q at liquidity L:
\* L * (1/p - 1/q).
base_delta(L, p, q) == (L * (q - p)) \div (p * q)

\* Quote needed (or obtained) when the price moves between p and q: L * (q - p).
quote_delta(L, p, q) == L * (q - p)

\* The price reached when net is short of the segment's boundary, rounded up.
partial_target_up_ceil(L, p, net) == p + ((net + L - 1) \div L)

\* The price p_target reached when net is short of the segment's boundary:
\* L * (p_target - p) = net.
partial_target_up(L, p, net) == p + (net \div L)

\* Curve walk, quote -> base: consume net segment by segment from price p.
RECURSIVE walk_up(_, _, _, _, _)
walk_up(segs, i, p, net, out) ==
    IF i > Len(segs)
    THEN [amount_out |-> out, ending_sqrt_price |-> p]
    ELSE LET L    == segs[i].liquidity
             need == quote_delta(L, p, segs[i].hi)
         IN  IF net >= need
             THEN walk_up(segs, i + 1, segs[i].hi, net - need,
                          out + base_delta(L, p, segs[i].hi))
             ELSE LET p_target == partial_target_up(L, p, net)
                  IN  [amount_out |-> out + base_delta(L, p, p_target),
                       ending_sqrt_price |-> p_target]

\* Curve walk, base -> quote: symmetric, the price falls.
RECURSIVE walk_down(_, _, _, _, _)
walk_down(segs, i, p, net, out) ==
    IF i < 1
    THEN [amount_out |-> out, ending_sqrt_price |-> p]
    ELSE LET L    == segs[i].liquidity
             need == base_delta(L, segs[i].lo, p)
         IN  IF net >= need
             THEN walk_down(segs, i - 1, segs[i].lo, net - need,
                            out + quote_delta(L, segs[i].lo, p))
             ELSE LET p_target == (L * p) \div (L + net * p)
                  IN  [amount_out |-> out + quote_delta(L, p_target, p),
                       ending_sqrt_price |-> p_target]

\* Fee extraction on the input side.
fee_total_of(amount_in, cliff_fee_num) ==
    (amount_in * cliff_fee_num) \div FEE_DENOMINATOR

fee_share(fee_total, pct) == (fee_total * pct) \div 100

\* The fee added to the input instead of taken from it.
net_input_plus_fee(amount_in, fee_total) == amount_in + fee_total

\* net_input = amount_in - fee_total
net_input_of(amount_in, fee_total) == amount_in - fee_total

NoEstimate ==
    [err |-> "none", amount_out |-> 0, fee_total |-> 0, protocol_fee |-> 0,
     referral_fee |-> 0, ending_sqrt_price |-> 0]

\* quote(direction, ...): fees, then the walk; exhaustion saturates.
quote(direction, amount_in, cliff_fee_num, protocol_fee_pct, referral_fee_pct, cur_sqrt, c) ==
    IF CurveError(c) # "none"
    THEN [NoEstimate EXCEPT !.err = CurveError(c)]
    ELSE LET fee_total == fee_total_of(amount_in, cliff_fee_num)
             net_input == net_input_of(amount_in, fee_total)
             segs      == segments(c)
         IN  IF amount_in < fee_total
             THEN [NoEstimate EXCEPT !.err = "QuoteError::AmountTooSmall"]
             ELSE LET w == IF direction = "quote_to_base"
                           THEN walk_up(segs, locate_up(segs, cur_sqrt),
                                        cur_sqrt, net_input, 0)
                           ELSE walk_down(segs, locate_down(segs, cur_sqrt),
                                          cur_sqrt, net_input, 0)
                  IN  [err               |-> "none",
                       amount_out        |-> w.amount_out,
                       fee_total         |-> fee_total,
                       protocol_fee      |-> fee_share(fee_total, protocol_fee_pct),
                       referral_fee      |-> fee_share(fee_total, referral_fee_pct),
                       ending_sqrt_price |-> w.ending_sqrt_price]

swap_quote_to_base(amount_in, cliff_fee_num, protocol_fee_pct, referral_fee_pct, cur_sqrt, c) ==
    quote("quote_to_base", amount_in, cliff_fee_num, protocol_fee_pct,
          referral_fee_pct, cur_sqrt, c)

swap_base_to_quote(amount_in, cliff_fee_num, protocol_fee_pct, referral_fee_pct, cur_sqrt, c) ==
    quote("base_to_quote", amount_in, cliff_fee_num, protocol_fee_pct,
          referral_fee_pct, cur_sqrt, c)

\* fetch_pool_state / fetch_pool_config: decoding fails on a buffer of the
\* wrong length or with the wrong discriminator.
DecodeError(bytes) ==
    CASE bytes = "short"   -> "DecodeError::UnexpectedLength"
      [] bytes = "bad_disc" -> "DecodeError::InvalidDiscriminator"
      [] OTHER              -> "none"

CoreFailures ==
    {"DecodeError::UnexpectedLength", "DecodeError::InvalidDiscriminator",
     "CurveError::Empty", "CurveError::NonMonotonic",
     "QuoteError::AmountTooSmall"}

----------------------------------------------------------------------------
(* meteora_dbc.py: the pieces of buy and sell.                             *)

\* The filter with the wrong field: if pt.liquidity != 0
RECURSIVE FilterCurveByLiquidity(_)
FilterCurveByLiquidity(points) ==
    IF points = <<>> THEN <<>>
    ELSE LET pt == Head(points)
         IN  IF pt.liquidity # 0
             THEN <<<<pt.sqrt_price, pt.liquidity>>>>
                  \o FilterCurveByLiquidity(Tail(points))
             ELSE FilterCurveByLiquidity(Tail(points))

\* curve = [(pt.sqrt_price, pt.liquidity) for pt in pool_config.curve
\*          if pt.sqrt_price != 0]
RECURSIVE FilterCurve(_)
FilterCurve(points) ==
    IF points = <<>> THEN <<>>
    ELSE LET pt == Head(points)
         IN  IF pt.sqrt_price # 0
             THEN <<<<pt.sqrt_price, pt.liquidity>>>> \o FilterCurve(Tail(points))
             ELSE FilterCurve(Tail(points))

RECURSIVE Pow10(_)
Pow10(n) == IF n = 0 THEN 1 ELSE 10 * Pow10(n - 1)

\* quote_amount_in = int(quote_in * 10 ** quote_token_decimals); quote_in is
\* given in tenths of a token (the default 0.1 is 1) and is not negative.
QuoteAmountIn(quote_in_tenths, quote_token_decimals) ==
    (quote_in_tenths * Pow10(quote_token_decimals)) \div 10

\* base_amount_in = int(base_balance * (percentage / 100))
BaseAmountIn(base_balance, percentage) ==
    (base_balance * percentage) \div 100

\* buy with the two fee percentages exchanged
BuyEstimateSwappedPercents(cfg, st, quote_amount_in, c) ==
    swap_quote_to_base(quote_amount_in, cfg.cliff_fee_numerator,
                       cfg.referral_fee_percent, cfg.protocol_fee_percent,
                       st.sqrt_price, c)

\* estimate = swap_quote_to_base(amount_in=quote_amount_in, ...)
BuyEstimate(cfg, st, quote_amount_in, c) ==
    swap_quote_to_base(quote_amount_in, cfg.cliff_fee_numerator,
                       cfg.protocol_fee_percent, cfg.referral_fee_percent,
                       st.sqrt_price, c)

\* sell estimated with the quotation of buy
SellEstimateAsBuy(cfg, st, base_amount_in, c) ==
    swap_quote_to_base(base_amount_in, cfg.cliff_fee_numerator,
                       cfg.protocol_fee_percent, cfg.referral_fee_percent,
                       st.sqrt_price, c)

\* estimate = swap_base_to_quote(amount_in=base_amount_in, ...)
SellEstimate(cfg, st, base_amount_in, c) ==
    swap_base_to_quote(base_amount_in, cfg.cliff_fee_numerator,
                       cfg.protocol_fee_percent, cfg.referral_fee_percent,
                       st.sqrt_price, c)

\* get_associated_token_address(owner, mint)
get_associated_token_address(owner, mint) == <<"ata">> \o owner \o mint

\* Pubkey.create_with_seed(base, seed, program_id)
create_with_seed(base, seed, program_id) ==
    <<"seeded">> \o base \o <<seed>> \o program_id

\* AccountMeta(pubkey, is_signer, is_writable)
AccountMeta(pubkey, is_signer, is_writable) ==
    [pubkey |-> pubkey, is_signer |-> is_signer, is_writable |-> is_writable]

\* buy with the two token accounts in the order of sell
BuyAccountsAsSell(cfg, st, quote_token_account, base_token_account) ==
    << AccountMeta(POOL_AUTHORITY, FALSE, FALSE),
       AccountMeta(st.config, FALSE, FALSE),
       AccountMeta(st.pool, FALSE, TRUE),
       AccountMeta(base_token_account, FALSE, TRUE),
       AccountMeta(quote_token_account, FALSE, TRUE),
       AccountMeta(st.base_vault, FALSE, TRUE),
       AccountMeta(st.quote_vault, FALSE, TRUE),
       AccountMeta(st.base_mint, FALSE, FALSE),
       AccountMeta(cfg.quote_mint, FALSE, FALSE),
       AccountMeta(payer, TRUE, TRUE),
       AccountMeta(TOKEN_PROGRAM_ID, FALSE, FALSE),
       AccountMeta(TOKEN_PROGRAM_ID, FALSE, FALSE),
       AccountMeta(REFERRAL_TOKEN_ACC, FALSE, FALSE),
       AccountMeta(EVENT_AUTH, FALSE, FALSE),
       AccountMeta(METEORA_DBC_PROGRAM, FALSE, FALSE) >>

\* accounts of the swap instruction in buy
BuyAccounts(cfg, st, quote_token_account, base_token_account) ==
    << AccountMeta(POOL_AUTHORITY, FALSE, FALSE),
       AccountMeta(st.config, FALSE, FALSE),
       AccountMeta(st.pool, FALSE, TRUE),
       AccountMeta(quote_token_account, FALSE, TRUE),
       AccountMeta(base_token_account, FALSE, TRUE),
       AccountMeta(st.base_vault, FALSE, TRUE),
       AccountMeta(st.quote_vault, FALSE, TRUE),
       AccountMeta(st.base_mint, FALSE, FALSE),
       AccountMeta(cfg.quote_mint, FALSE, FALSE),
       AccountMeta(payer, TRUE, TRUE),
       AccountMeta(TOKEN_PROGRAM_ID, FALSE, FALSE),
       AccountMeta(TOKEN_PROGRAM_ID, FALSE, FALSE),
       AccountMeta(REFERRAL_TOKEN_ACC, FALSE, FALSE),
       AccountMeta(EVENT_AUTH, FALSE, FALSE),
       AccountMeta(METEORA_DBC_PROGRAM, FALSE, FALSE) >>

\* accounts of the swap instruction in sell
SellAccounts(cfg, st, quote_token_account, base_token_account) ==
    << AccountMeta(POOL_AUTHORITY, FALSE, FALSE),
       AccountMeta(st.config, FALSE, FALSE),
       AccountMeta(st.pool, FALSE, TRUE),
       AccountMeta(base_token_account, FALSE, TRUE),
       AccountMeta(quote_token_account, FALSE, TRUE),
       AccountMeta(st.base_vault, FALSE, TRUE),
       AccountMeta(st.quote_vault, FALSE, TRUE),
       AccountMeta(st.base_mint, FALSE, FALSE),
       AccountMeta(cfg.quote_mint, FALSE, FALSE),
       AccountMeta(payer, TRUE, TRUE),
       AccountMeta(TOKEN_PROGRAM_ID, FALSE, FALSE),
       AccountMeta(TOKEN_PROGRAM_ID, FALSE, FALSE),
       AccountMeta(REFERRAL_TOKEN_ACC, FALSE, FALSE),
       AccountMeta(EVENT_AUTH, FALSE, FALSE),
       AccountMeta(METEORA_DBC_PROGRAM, FALSE, FALSE) >>

\* bytearray.fromhex("f8c69e91e17587c8")
Discriminator == <<248, 198, 158, 145, 225, 117, 135, 200>>

\* Little-endian bytes of x, n of them.
RECURSIVE LittleEndian(_, _)
LittleEndian(x, n) ==
    IF n = 0 THEN <<>> ELSE <<x % 256>> \o LittleEndian(x \div 256, n - 1)

\* struct.pack(">Q", x): the bytes of x in big-endian order
RECURSIVE BigEndian(_, _)
BigEndian(x, n) ==
    IF n = 0 THEN <<>> ELSE BigEndian(x \div 256, n - 1) \o <<x % 256>>

pack_Q_big(x) == BigEndian(x, 8)

\* struct.pack("<Q", x), for x in range
pack_Q(x) == LittleEndian(x, 8)

\* data = discriminator, then amount_in, then minimum_amount_out
SwapData(amount_in, minimum_amount_out) ==
    Discriminator \o pack_Q(amount_in) \o pack_Q(minimum_amount_out)

\* The minimum taken from the estimate and the slippage percentage.
MinAmountOutFromSlippage(slippage, est) ==
    (est.amount_out \div 100) * (100 - slippage)

\* min_base_amount_out = 0 (buy), min_quote_amount_out = 0 (sell)
MinAmountOut(slippage, est) == 0

\* An instruction of the transaction: its kind, the account it is about and
\* its arguments.
Ix(kind, account, arg) == [kind |-> kind, account |-> account, arg |-> arg]

\* swap_instr = Instruction(METEORA_DBC_PROGRAM, bytes(data), accounts)
SwapIx(d, accs) == Ix("swap", METEORA_DBC_PROGRAM, <<d, accs>>)

\* buy without the close of the quote token account
BuyInstructionsNoClose(unit_budget, unit_price, create_ix, init_ix, base_account_ix, swap_ix, close_quote_ix) ==
    LET first == << Ix("set_compute_unit_limit", <<>>, <<unit_budget>>),
                    Ix("set_compute_unit_price", <<>>, <<unit_price>>),
                    create_ix,
                    init_ix >>
        withBase == IF base_account_ix # <<>>
                    THEN first \o base_account_ix
                    ELSE first
    IN  withBase \o <<swap_ix>>

\* instructions of buy
BuyInstructions(unit_budget, unit_price, create_ix, init_ix, base_account_ix, swap_ix, close_quote_ix) ==
    LET first == << Ix("set_compute_unit_limit", <<>>, <<unit_budget>>),
                    Ix("set_compute_unit_price", <<>>, <<unit_price>>),
                    create_ix,
                    init_ix >>
        withBase == IF base_account_ix # <<>>
                    THEN first \o base_account_ix
                    ELSE first
    IN  withBase \o <<swap_ix, close_quote_ix>>

\* instructions of sell
SellInstructions(unit_budget, unit_price, create_ix, init_ix, swap_ix, close_quote_ix, close_base_ix, percentage) ==
    LET first == << Ix("set_compute_unit_limit", <<>>, <<unit_budget>>),
                    Ix("set_compute_unit_price", <<>>, <<unit_price>>),
                    create_ix,
                    init_ix,
                    swap_ix,
                    close_quote_ix >>
    IN  IF percentage = 100 THEN first \o <<close_base_ix>> ELSE first

\* State of the locals and outputs before anything is computed.
NoRun ==
    [curve |-> <<>>, estimate |-> NoEstimate, accounts |-> <<>>, data |-> <<>>,
     instructions |-> <<>>, sent |-> <<>>, result |-> "none",
     printed |-> <<>>, raised |-> "none"]

\* except Exception: return False, printing nothing
ExceptHandlerSilent(run, e) ==
    [run EXCEPT !.raised = e, !.result = "False"]

\* except Exception as e: print("Error occurred during transaction:", e);
\* return False
ExceptHandler(run, e) ==
    [run EXCEPT !.raised  = e,
                !.printed = Append(run.printed,
                                   <<"Error occurred during transaction:", e>>),
                !.result  = "False"]

\* Defaults of the unit_budget and unit_price arguments.
UNIT_BUDGET == 100000
UNIT_PRICE  == 1000000

\* create_account_with_seed, initialize_account, close_account and
\* create_associated_token_account as used by buy and sell
CreateQuoteIx(quote_token_account, lamports) ==
    Ix("create_account_with_seed", quote_token_account,
       <<lamports, ACCOUNT_SPACE>>)

InitQuoteIx(quote_token_account, quote_mint) ==
    Ix("initialize_account", quote_token_account, quote_mint)

CloseIx(account) == Ix("close_account", account, payer)

CreateBaseIx(base_mint) ==
    Ix("create_associated_token_account",
       get_associated_token_address(payer, base_mint), base_mint)

\* Tail of buy and sell: compile, send, confirm.
SendAndConfirm(run, net) ==
    IF net.fault = "send_error"
    THEN ExceptHandler(run, "RPCException")
    ELSE LET confirmed == IF net.fault = "unconfirmed" THEN "False" ELSE "True"
         IN  [run EXCEPT !.sent    = run.instructions,
                         !.printed = Append(run.printed,
                                        <<"Transaction confirmed:", confirmed>>),
                         !.result  = confirmed]

\* def buy(client, payer_keypair, pool_str, quote_in, slippage, ...)
buy(led, cfg, st, net, quote_in, slippage) ==
    IF DecodeError(led.state_bytes) # "none"
    THEN ExceptHandler(NoRun, DecodeError(led.state_bytes))
    ELSE IF DecodeError(led.config_bytes) # "none"
    THEN ExceptHandler(NoRun, DecodeError(led.config_bytes))
    ELSE
    LET quote_amount_in     == QuoteAmountIn(quote_in, cfg.token_decimal)
        c                   == FilterCurve(cfg.curve)
        est                 == BuyEstimate(cfg, st, quote_amount_in, c)
        min_base_amount_out == MinAmountOut(slippage, est)
        r1                  == [NoRun EXCEPT !.curve = c, !.estimate = est]
    IN
    IF est.err # "none" THEN ExceptHandler(r1, est.err)
    ELSE IF net.fault = "rpc_error" THEN ExceptHandler(r1, "RPCException")
    ELSE
    LET exists              == net.base_accounts # <<>>
        base_token_account  == IF exists THEN net.base_accounts[1]
                               ELSE get_associated_token_address(payer, st.base_mint)
        base_account_ix     == IF exists THEN <<>>
                               ELSE <<CreateBaseIx(st.base_mint)>>
        quote_token_account == create_with_seed(payer, net.seed, TOKEN_PROGRAM_ID)
        accs                == BuyAccounts(cfg, st, quote_token_account,
                                           base_token_account)
        d                   == SwapData(quote_amount_in, min_base_amount_out)
        ixs                 == BuyInstructions(
                                   UNIT_BUDGET, UNIT_PRICE,
                                   CreateQuoteIx(quote_token_account,
                                                 net.rent + quote_amount_in),
                                   InitQuoteIx(quote_token_account, cfg.quote_mint),
                                   base_account_ix,
                                   SwapIx(d, accs),
                                   CloseIx(quote_token_account))
    IN  SendAndConfirm([r1 EXCEPT !.accounts = accs, !.data = d,
                                  !.instructions = ixs], net)

\* def sell(client, payer_keypair, pool_str, percentage, slippage, ...)
sell(led, cfg, st, net, percentage, slippage) ==
    IF ~(1 <= percentage /\ percentage <= 100)
    THEN [NoRun EXCEPT !.printed = <<<<"Percentage must be between 1 and 100.">>>>,
                       !.result  = "False"]
    ELSE IF DecodeError(led.state_bytes) # "none"
    THEN ExceptHandler(NoRun, DecodeError(led.state_bytes))
    ELSE IF DecodeError(led.config_bytes) # "none"
    THEN ExceptHandler(NoRun, DecodeError(led.config_bytes))
    ELSE
    LET c  == FilterCurve(cfg.curve)
        r0 == [NoRun EXCEPT !.curve = c]
    IN
    IF net.base_balance = 0
    THEN [r0 EXCEPT !.printed = <<<<"Base token balance is zero. Nothing to sell.">>>>,
                    !.result  = "False"]
    ELSE
    LET base_amount_in       == BaseAmountIn(net.base_balance, percentage)
        est                  == SellEstimate(cfg, st, base_amount_in, c)
        min_quote_amount_out == MinAmountOut(slippage, est)
        r1                   == [r0 EXCEPT !.estimate = est]
    IN
    IF est.err # "none" THEN ExceptHandler(r1, est.err)
    ELSE IF net.fault = "rpc_error" THEN ExceptHandler(r1, "RPCException")
    ELSE
    LET base_token_account  == get_associated_token_address(payer, st.base_mint)
        quote_token_account == create_with_seed(payer, net.seed, TOKEN_PROGRAM_ID)
        accs                == SellAccounts(cfg, st, quote_token_account,
                                            base_token_account)
        d                   == SwapData(base_amount_in, min_quote_amount_out)
        ixs                 == SellInstructions(
                                   UNIT_BUDGET, UNIT_PRICE,
                                   CreateQuoteIx(quote_token_account, net.rent),
                                   InitQuoteIx(quote_token_account, cfg.quote_mint),
                                   SwapIx(d, accs),
                                   CloseIx(quote_token_account),
                                   CloseIx(base_token_account),
                                   percentage)
    IN  SendAndConfirm([r1 EXCEPT !.accounts = accs, !.data = d,
                                  !.instructions = ixs], net)

----------------------------------------------------------------------------
(* The environments a call can meet, and the arguments it can be given.    *)

CurvePoint(sqrt_price, liquidity) ==
    [sqrt_price |-> sqrt_price, liquidity |-> liquidity]

\* Liquidity of a generated point.
LiquidityAt(p) == IF p % 2 = 1 THEN 120 ELSE 60

\* Every curve array over the generated points; a point with sqrt_price 0 is
\* an unused slot and may sit anywhere.
GenPoints ==
    {CurvePoint(0, 0)} \cup {CurvePoint(p, LiquidityAt(p)) : p \in 1..MaxPrice}

GenCurves == [1..CurveCap -> GenPoints]

\* The two-point curve of spec.md section 8.
ExampleCurve ==
    <<CurvePoint(100, 1000000), CurvePoint(200, 500000), CurvePoint(0, 0)>>

\* A curve whose only segment holds one unit of liquidity.
ThinCurve == <<CurvePoint(3, 1), CurvePoint(0, 0), CurvePoint(5, 1)>>

\* A curve with a segment of no liquidity.
GapCurve == <<CurvePoint(1, 60), CurvePoint(2, 0), CurvePoint(3, 60)>>

\* Prices a pool on curve array pts can be at: within the curve when the
\* curve is valid (spec.md section 3, PoolState invariant).
PoolPrices(pts) ==
    LET c == FilterCurve(pts)
    IN  IF CurveError(c) # "none" THEN {1}
        ELSE {c[i][1] : i \in 1..Len(c)}
             \cup {(c[i][1] + c[i + 1][1]) \div 2 : i \in 1..(Len(c) - 1)}

PoolConfigs(curves, decimals, cliffs, pcts) ==
    {[quote_mint           |-> <<"quote_mint">>,
      token_decimal        |-> dec,
      curve                |-> pts,
      cliff_fee_numerator  |-> cliff,
      protocol_fee_percent |-> pp[1],
      referral_fee_percent |-> pp[2]] :
        pts \in curves, dec \in decimals, cliff \in cliffs, pp \in pcts}

PoolStates(cfg, pools) ==
    {[config      |-> <<"config", k>>,
      pool        |-> <<"pool", k>>,
      base_mint   |-> <<"base_mint", k>>,
      base_vault  |-> <<"base_vault", k>>,
      quote_vault |-> <<"quote_vault", k>>,
      sqrt_price  |-> p] : k \in pools, p \in PoolPrices(cfg.curve)}

ByteConditions == {"ok", "short", "bad_disc"}

Ledgers ==
    {[state_bytes |-> s, config_bytes |-> c] :
        s \in ByteConditions, c \in ByteConditions}

OkLedger == [state_bytes |-> "ok", config_bytes |-> "ok"]

RENT == 2039280

Rpcs(faults, balances, seeds, base_accounts) ==
    {[fault         |-> f,
      base_accounts |-> accs,
      base_balance  |-> b,
      seed          |-> s,
      rent          |-> RENT] :
        f \in faults, b \in balances, s \in seeds,
        accs \in base_accounts}

Cliffs == {0, 3, 11}

PctPairs == {<<20, 30>>, <<60, 50>>, <<100, 0>>}

QuoteIns == {0, 1, 3, 7, 13, 40, 60}

Percentages == {0, 1, 50, 100, 101}

Slippages == {0, 5}

NoCall == [op |-> "none", quote_in |-> -1, percentage |-> -1, slippage |-> -1]

Idle ==
    /\ call = NoCall
    /\ curve = NoRun.curve
    /\ estimate = NoRun.estimate
    /\ accounts = NoRun.accounts
    /\ data = NoRun.data
    /\ instructions = NoRun.instructions
    /\ sent = NoRun.sent
    /\ result = NoRun.result
    /\ printed = NoRun.printed
    /\ raised = NoRun.raised

\* Healthy ledger and node, every generated curve and fee setting.
InitCurves ==
    /\ pool_config \in
          PoolConfigs(GenCurves \cup {GapCurve}, {2}, Cliffs, PctPairs)
          \cup PoolConfigs({ExampleCurve}, {7}, {0, 3}, {<<20, 30>>})
          \cup PoolConfigs({ThinCurve}, {1}, Cliffs, PctPairs)
    /\ pool_state \in PoolStates(pool_config, {"A"})
    /\ ledger = OkLedger
    /\ rpc \in Rpcs({"ok"},
                    IF pool_config.curve = ExampleCurve THEN {6000}
                    ELSE IF pool_config.curve = ThinCurve THEN {2}
                    ELSE {80},
                    {"seed1"}, {<<>>})

\* Every ledger and node condition, on a few curves.
InitFaults ==
    /\ pool_config \in
          PoolConfigs({GapCurve, <<CurvePoint(2, 60), CurvePoint(1, 120),
                                   CurvePoint(0, 0)>>},
                      {2}, {3}, {<<20, 30>>})
    /\ pool_state \in PoolStates(pool_config, {"A", "B"})
    /\ ledger \in Ledgers
    /\ rpc \in Rpcs({"ok", "rpc_error", "send_error", "unconfirmed"},
                    {0, 200}, {"seed1", "seed2"},
                    {<<>>, << <<"base_token_account">> >>})

Init ==
    /\ Idle
    /\ InitCurves \/ InitFaults

SetRun(r) ==
    /\ curve' = r.curve
    /\ estimate' = r.estimate
    /\ accounts' = r.accounts
    /\ data' = r.data
    /\ instructions' = r.instructions
    /\ sent' = r.sent
    /\ result' = r.result
    /\ printed' = r.printed
    /\ raised' = r.raised

Buy(quote_in, slippage) ==
    /\ call = NoCall
    /\ call' = [op |-> "buy", quote_in |-> quote_in, percentage |-> -1,
                slippage |-> slippage]
    /\ SetRun(buy(ledger, pool_config, pool_state, rpc, quote_in, slippage))
    /\ UNCHANGED <<pool_config, pool_state, ledger, rpc>>

Sell(percentage, slippage) ==
    /\ call = NoCall
    /\ call' = [op |-> "sell", quote_in |-> -1, percentage |-> percentage,
                slippage |-> slippage]
    /\ SetRun(sell(ledger, pool_config, pool_state, rpc, percentage, slippage))
    /\ UNCHANGED <<pool_config, pool_state, ledger, rpc>>

Next ==
    \/ \E q \in QuoteIns, s \in Slippages : Buy(q, s)
    \/ \E p \in Percentages, s \in Slippages : Sell(p, s)

Spec == Init /\ [][Next]_vars

----------------------------------------------------------------------------
(* Properties.                                                             *)

\* The call got as far as building the swap instruction.
Built == call.op \in {"buy", "sell"} /\ accounts # <<>>

\* The amount the call swaps, from its arguments and the environment.
AmountIn ==
    IF call.op = "buy"
    THEN (call.quote_in * Pow10(pool_config.token_decimal)) \div 10
    ELSE (rpc.base_balance * call.percentage) \div 100

\* The ephemeral quote token account: the one the list creates.
QuoteTokenAccount == instructions[3].account

\* The base token account of the payer the call uses.
BaseTokenAccount ==
    IF call.op = "buy" /\ rpc.base_accounts # <<>>
    THEN rpc.base_accounts[1]
    ELSE <<"ata">> \o payer \o pool_state.base_mint

\* Roles of the 15 entries that do not depend on the direction (entries 4
\* and 5, positions 3 and 4 counted from 0, are the token accounts).
FixedRoles ==
    [i \in (1..15) \ {4, 5} |->
        CASE i = 1  -> POOL_AUTHORITY
          [] i = 2  -> pool_state.config
          [] i = 3  -> pool_state.pool
          [] i = 6  -> pool_state.base_vault
          [] i = 7  -> pool_state.quote_vault
          [] i = 8  -> pool_state.base_mint
          [] i = 9  -> pool_config.quote_mint
          [] i = 10 -> payer
          [] i = 11 -> TOKEN_PROGRAM_ID
          [] i = 12 -> TOKEN_PROGRAM_ID
          [] i = 13 -> REFERRAL_TOKEN_ACC
          [] i = 14 -> EVENT_AUTH
          [] i = 15 -> METEORA_DBC_PROGRAM]

\* C1: the swap instruction of buy and of sell has 15 accounts in the fixed
\* role order, only the payer (position 9) signs, positions 2-6 and 9 are
\* writable, and the direction decides only positions 3 and 4: quote then
\* base token account in buy, base then quote token account in sell.
C1_AccountOrder ==
    Built =>
        /\ Len(accounts) = 15
        /\ \A i \in 1..15 :
              /\ accounts[i].is_signer = (i = 10)
              /\ accounts[i].is_writable = (i \in {3, 4, 5, 6, 7, 10})
        /\ \A i \in DOMAIN FixedRoles : accounts[i].pubkey = FixedRoles[i]
        /\ call.op = "buy" =>
              /\ accounts[4].pubkey = QuoteTokenAccount
              /\ accounts[5].pubkey = BaseTokenAccount
        /\ call.op = "sell" =>
              /\ accounts[4].pubkey = BaseTokenAccount
              /\ accounts[5].pubkey = QuoteTokenAccount

C1_Witness ==
    /\ call.op = "buy"
    /\ Built
    /\ rpc.base_accounts # <<>>
    /\ accounts[4].pubkey # accounts[5].pubkey
    /\ result = "True"

\* Value of a little-endian byte string.
RECURSIVE FromLittleEndian(_)
FromLittleEndian(bytes) ==
    IF bytes = <<>> THEN 0
    ELSE Head(bytes) + 256 * FromLittleEndian(Tail(bytes))

\* Decoding of the swap payload (spec.md 4.1): the two integers after the
\* discriminator.
DecodeSwapData(d) ==
    <<FromLittleEndian(SubSeq(d, 9, 16)), FromLittleEndian(SubSeq(d, 17, 24))>>

\* Amounts on both sides of every byte boundary TLC's integers reach.
U64Samples == {0, 1, 255, 256, 65536, 2147483647}

WellFormedPayload(d, amount_in, minimum_amount_out) ==
    /\ Len(d) = 24
    /\ SubSeq(d, 1, 8) = <<248, 198, 158, 145, 225, 117, 135, 200>>
    /\ \A i \in 9..24 : d[i] \in 0..255
    /\ \A i \in 0..3 :
          /\ d[9 + i] = (amount_in \div (2 ^ (8 * i))) % 256
          /\ d[17 + i] = (minimum_amount_out \div (2 ^ (8 * i))) % 256
    /\ \A i \in 4..7 : d[9 + i] = 0 /\ d[17 + i] = 0
    /\ DecodeSwapData(d) = <<amount_in, minimum_amount_out>>

\* C2: the payload of buy and of sell is 24 bytes: the discriminator
\* f8c69e91e17587c8, amount_in and minimum_amount_out as 8-byte
\* little-endian integers; decoding gives back (amount_in, minimum_amount_out).
C2_Payload ==
    Built =>
        /\ WellFormedPayload(data, AmountIn, DecodeSwapData(data)[2])
        /\ \A a \in U64Samples, m \in U64Samples :
              WellFormedPayload(SwapData(a, m), a, m)

C2_Witness ==
    /\ Built
    /\ call.op = "sell"
    /\ AmountIn > 0
    /\ DecodeSwapData(data)[1] = AmountIn
    /\ result = "True"


\* The same call on the same pool and node, with other account bytes on the
\* ledger.
Rerun(led, slippage) ==
    IF call.op = "buy"
    THEN buy(led, pool_config, pool_state, rpc, call.quote_in, slippage)
    ELSE sell(led, pool_config, pool_state, rpc, call.percentage, slippage)

\* The points of the configuration's curve that are in use.
UsedPoints == SelectSeq(pool_config.curve, LAMBDA pt : pt.sqrt_price # 0)

UsedCurve == [i \in 1..Len(UsedPoints) |->
                 <<UsedPoints[i].sqrt_price, UsedPoints[i].liquidity>>]

\* The call reached the quotation function.
Quoted ==
    /\ call.op \in {"buy", "sell"}
    /\ ledger = OkLedger
    /\ call.op = "sell" =>
          /\ call.percentage \in 1..100
          /\ rpc.base_balance # 0

\* The core failure the call meets first, "none" if it meets none.
FirstCoreFailure ==
    IF call.op = "sell" /\ call.percentage \notin 1..100 THEN "none"
    ELSE IF ledger.state_bytes = "short" THEN "DecodeError::UnexpectedLength"
    ELSE IF ledger.state_bytes = "bad_disc" THEN "DecodeError::InvalidDiscriminator"
    ELSE IF ledger.config_bytes = "short" THEN "DecodeError::UnexpectedLength"
    ELSE IF ledger.config_bytes = "bad_disc" THEN "DecodeError::InvalidDiscriminator"
    ELSE IF call.op = "sell" /\ rpc.base_balance = 0 THEN "none"
    ELSE IF Len(UsedCurve) < 2 THEN "CurveError::Empty"
    ELSE IF \E i \in 1..(Len(UsedCurve) - 1) : UsedCurve[i][1] >= UsedCurve[i + 1][1]
         THEN "CurveError::NonMonotonic"
    ELSE IF AmountIn < (AmountIn * pool_config.cliff_fee_numerator) \div FEE_DENOMINATOR
         THEN "QuoteError::AmountTooSmall"
    ELSE "none"

\* C3 as stated: the value buy or sell returns tells the core failures apart:
\* had the ledger held other bytes and the call met another core failure, the
\* caller would have got another return value.
C3_TypedOutcome ==
    (call.op \in {"buy", "sell"} /\ raised \in CoreFailures) =>
        \A led \in Ledgers :
            LET other == Rerun(led, call.slippage)
            IN  (other.raised \in CoreFailures /\ other.raised # raised)
                    => other.result # result

\* C3 as the code has it: a core failure is not lost, it is caught by the
\* except clause of buy or sell, which prints it after "Error occurred during
\* transaction:" and returns False without sending anything; the return value
\* is False whatever the failure.
C3_CaughtPrintedFalse ==
    (call.op \in {"buy", "sell"} /\ FirstCoreFailure # "none") =>
        /\ raised = FirstCoreFailure
        /\ printed = << <<"Error occurred during transaction:", FirstCoreFailure>> >>
        /\ result = "False"
        /\ sent = <<>>
        /\ accounts = <<>> /\ data = <<>>

C3_Witness ==
    /\ call.op = "buy"
    /\ raised = "QuoteError::AmountTooSmall"
    /\ result = "False"
    /\ Len(printed) = 1

\* C8: the curve handed to the quotation has no point of sqrt_price 0, has
\* every point of the configuration with a non-zero sqrt_price, in the
\* configuration's order and with its (sqrt_price, liquidity) unchanged.
C8_FilteredCurve ==
    (call.op \in {"buy", "sell"} /\ FirstCoreFailure \notin
        {"DecodeError::UnexpectedLength", "DecodeError::InvalidDiscriminator"}
     /\ (call.op = "sell" => call.percentage \in 1..100)) =>
        /\ \A i \in 1..Len(curve) : curve[i][1] # 0
        /\ Len(curve) =
             Cardinality({j \in 1..Len(pool_config.curve) :
                            pool_config.curve[j].sqrt_price # 0})
        /\ curve = UsedCurve

C8_Witness ==
    /\ call.op = "sell"
    /\ Len(curve) = 2
    /\ pool_config.curve[2].sqrt_price = 0
    /\ pool_config.curve[3].sqrt_price # 0
    /\ curve[2] = <<pool_config.curve[3].sqrt_price, pool_config.curve[3].liquidity>>
    /\ estimate.err = "none"
    /\ estimate.amount_out > 0

\* Positions in the list of the instructions of a kind about an account.
PositionsOf(ixs, kind, account) ==
    {i \in 1..Len(ixs) : ixs[i].kind = kind /\ ixs[i].account = account}

PositionsOfKind(ixs, kind) == {i \in 1..Len(ixs) : ixs[i].kind = kind}

\* C9: in every instruction list buy or sell assembles, the two
\* compute-budget instructions come first, then the ephemeral quote token
\* account is created, initialized, used by the swap and closed, once each
\* and in that order; buy creates the base token account, when it has to,
\* before the swap; sell closes the base token account exactly when
\* percentage is 100, after the close of the quote token account; the list
\* sent is the list assembled.
C9_InstructionOrder ==
    (call.op \in {"buy", "sell"} /\ instructions # <<>>) =>
        LET ixs     == instructions
            q       == QuoteTokenAccount
            creates == PositionsOfKind(ixs, "create_account_with_seed")
            inits   == PositionsOfKind(ixs, "initialize_account")
            swaps   == PositionsOfKind(ixs, "swap")
            closes  == PositionsOf(ixs, "close_account", q)
            bases   == PositionsOfKind(ixs, "create_associated_token_account")
            closeb  == PositionsOf(ixs, "close_account", BaseTokenAccount)
        IN  /\ ixs[1].kind = "set_compute_unit_limit"
            /\ ixs[2].kind = "set_compute_unit_price"
            /\ Cardinality(creates) = 1 /\ Cardinality(inits) = 1
            /\ Cardinality(swaps) = 1 /\ Cardinality(closes) = 1
            /\ \A c \in creates, i \in inits, s \in swaps, k \in closes :
                  /\ c < i /\ i < s /\ s < k
                  /\ ixs[c].account = q /\ ixs[i].account = q
                  /\ \E a \in 1..Len(ixs[s].arg[2]) : ixs[s].arg[2][a].pubkey = q
                  /\ ixs[s].arg[1] = data /\ ixs[s].arg[2] = accounts
                  /\ \A b \in bases : b < s
                  /\ \A b \in closeb : k < b
            /\ call.op = "buy" =>
                  /\ Cardinality(bases) = (IF rpc.base_accounts = <<>> THEN 1 ELSE 0)
                  /\ closeb = {}
            /\ call.op = "sell" =>
                  /\ bases = {}
                  /\ Cardinality(closeb) = (IF call.percentage = 100 THEN 1 ELSE 0)
            /\ Len(ixs) = 6 + Cardinality(bases) + Cardinality(closeb)
            /\ sent \in {<<>>, ixs}

C9_Witness ==
    /\ call.op = "buy"
    /\ rpc.base_accounts = <<>>
    /\ Len(sent) = 7
    /\ sent[5].kind = "create_associated_token_account"
    /\ sent[6].kind = "swap"
    /\ sent[7].kind = "close_account"

\* C10: the payload carries minimum_amount_out 0 whatever the slippage
\* argument and the estimate: the payload is the discriminator, the amount
\* and eight zero bytes, and the same call with any other slippage builds the
\* same payload and the same account list.
C10_MinimumIsZero ==
    Built =>
        /\ SubSeq(data, 17, 24) = <<0, 0, 0, 0, 0, 0, 0, 0>>
        /\ DecodeSwapData(data) = <<AmountIn, 0>>
        /\ \A s \in {0, 1, 50, 100} :
              LET other == Rerun(ledger, s)
              IN  other.data = data /\ other.accounts = accounts

C10_Witness ==
    /\ Built
    /\ call.op = "buy"
    /\ call.slippage = 5
    /\ estimate.err = "none"
    /\ estimate.amount_out > 100
    /\ DecodeSwapData(data)[2] = 0
    /\ result = "True"

\* The quotation ran and gave an estimate.
Estimated == Quoted /\ FirstCoreFailure = "none"

FeeTotal == (AmountIn * pool_config.cliff_fee_numerator) \div FEE_DENOMINATOR

NetInput == AmountIn - FeeTotal

\* C4 as stated: the protocol and the referral share never exceed the fee,
\* whatever the two percentages in 0..100.
C4_SharesWithinFee ==
    (Estimated /\ pool_config.protocol_fee_percent \in 0..100
               /\ pool_config.referral_fee_percent \in 0..100) =>
        estimate.protocol_fee + estimate.referral_fee <= estimate.fee_total

\* C4 amended: the estimate's fees are floor(amount_in * cliff_fee_numerator /
\* FEE_DENOMINATOR) and the floors of its two percentages, and the two shares
\* stay within the fee when the two percentages add up to at most 100.
C4_SharesWithinFeeUpTo100 ==
    Estimated =>
        /\ estimate.fee_total = FeeTotal
        /\ estimate.protocol_fee =
              (FeeTotal * pool_config.protocol_fee_percent) \div 100
        /\ estimate.referral_fee =
              (FeeTotal * pool_config.referral_fee_percent) \div 100
        /\ (pool_config.protocol_fee_percent
              + pool_config.referral_fee_percent <= 100) =>
                estimate.protocol_fee + estimate.referral_fee <= estimate.fee_total

C4_Witness ==
    /\ Estimated
    /\ call.op = "buy"
    /\ pool_config.protocol_fee_percent = 20
    /\ pool_config.referral_fee_percent = 30
    /\ estimate.protocol_fee > 0
    /\ estimate.referral_fee > estimate.protocol_fee
    /\ estimate.protocol_fee + estimate.referral_fee < estimate.fee_total

Max(a, b) == IF a >= b THEN a ELSE b

Min(a, b) == IF a <= b THEN a ELSE b

RECURSIVE Sum(_, _)
Sum(f, n) == IF n = 0 THEN 0 ELSE f[n] + Sum(f, n - 1)

\* Per segment of the curve in use, what is left of it above the pool's
\* price: the quote it absorbs and the base it gives.
LeftAbove ==
    [k \in 1..(Len(UsedCurve) - 1) |->
        LET hi   == UsedCurve[k + 1][1]
            L    == UsedCurve[k + 1][2]
            from == Max(UsedCurve[k][1], pool_state.sqrt_price)
        IN  IF hi > pool_state.sqrt_price
            THEN [absorbs |-> L * (hi - from),
                  gives   |-> (L * (hi - from)) \div (from * hi)]
            ELSE [absorbs |-> 0, gives |-> 0]]

\* Per segment, what is left of it below the pool's price: the base it
\* absorbs and the quote it gives.
LeftBelow ==
    [k \in 1..(Len(UsedCurve) - 1) |->
        LET lo == UsedCurve[k][1]
            L  == UsedCurve[k + 1][2]
            to == Min(UsedCurve[k + 1][1], pool_state.sqrt_price)
        IN  IF lo < pool_state.sqrt_price
            THEN [absorbs |-> (L * (to - lo)) \div (lo * to),
                  gives   |-> L * (to - lo)]
            ELSE [absorbs |-> 0, gives |-> 0]]

Left == IF call.op = "buy" THEN LeftAbove ELSE LeftBelow

Depth == Sum([k \in DOMAIN Left |-> Left[k].absorbs], Len(Left))

MaxOutput == Sum([k \in DOMAIN Left |-> Left[k].gives], Len(Left))

OuterBoundary ==
    IF call.op = "buy" THEN UsedCurve[Len(UsedCurve)][1] ELSE UsedCurve[1][1]

\* C5: when net_input exceeds what the segments left in the trade's
\* direction absorb, the quotation does not fail: amount_out is the sum of
\* the outputs of crossing every segment left, and ending_sqrt_price is the
\* curve's outer boundary in that direction.
C5_Saturation ==
    (Estimated /\ NetInput > Depth) =>
        /\ estimate.err = "none"
        /\ estimate.amount_out = MaxOutput
        /\ estimate.ending_sqrt_price = OuterBoundary

C5_Witness ==
    /\ Estimated
    /\ call.op = "sell"
    /\ NetInput > Depth
    /\ Len(UsedCurve) = 3
    /\ pool_state.sqrt_price = UsedCurve[3][1]
    /\ estimate.amount_out = MaxOutput
    /\ MaxOutput > 0

Direction == IF call.op = "buy" THEN "quote_to_base" ELSE "base_to_quote"

\* C6: with the curve, the pool's price, the direction and amount_in fixed,
\* amount_out does not grow with cliff_fee_numerator: a quotation at a higher
\* fee numerator that succeeds gives no more, one at a lower numerator no less.
C6_FeeMonotone ==
    Estimated =>
        \A f \in 0..(FEE_DENOMINATOR + 1) :
            LET other == quote(Direction, AmountIn, f,
                               pool_config.protocol_fee_percent,
                               pool_config.referral_fee_percent,
                               pool_state.sqrt_price, UsedCurve)
            IN  other.err = "none" =>
                  /\ f >= pool_config.cliff_fee_numerator =>
                        other.amount_out <= estimate.amount_out
                  /\ f <= pool_config.cliff_fee_numerator =>
                        other.amount_out >= estimate.amount_out

C6_Witness ==
    /\ Estimated
    /\ call.op = "buy"
    /\ pool_config.cliff_fee_numerator = 3
    /\ estimate.amount_out > 0
    /\ quote(Direction, AmountIn, 0, pool_config.protocol_fee_percent,
             pool_config.referral_fee_percent, pool_state.sqrt_price,
             UsedCurve).amount_out > estimate.amount_out

\* The segment a rising price starts in: the first whose upper boundary is
\* above the pool's price (0 if the price is at the top).
StartSegment ==
    LET above == {k \in 1..(Len(UsedCurve) - 1) :
                     UsedCurve[k + 1][1] > pool_state.sqrt_price}
    IN  IF above = {} THEN 0
        ELSE CHOOSE k \in above : \A j \in above : k <= j

\* A buy whose net_input is short of the quote needed to reach the upper
\* boundary of the segment it starts in.
StopsInside ==
    /\ Estimated
    /\ call.op = "buy"
    /\ StartSegment # 0
    /\ NetInput < LeftAbove[StartSegment].absorbs

OnExampleCurve ==
    /\ UsedCurve = << <<100, 1000000>>, <<200, 500000>> >>
    /\ pool_state.sqrt_price = 100

\* C7 as stated: such a buy ends strictly below the boundary and gives
\* strictly less than crossing the whole segment gives.
C7_StrictlyLess ==
    StopsInside =>
        /\ estimate.ending_sqrt_price < UsedCurve[StartSegment + 1][1]
        /\ estimate.amount_out < LeftAbove[StartSegment].gives

\* C7 amended: such a buy ends strictly below the boundary and gives no more
\* than crossing the whole segment gives; on the curve [(100, 1_000_000),
\* (200, 500_000)] from price 100 it ends below 200 and gives strictly less.
C7_NoMore ==
    StopsInside =>
        /\ estimate.ending_sqrt_price >= pool_state.sqrt_price
        /\ estimate.ending_sqrt_price < UsedCurve[StartSegment + 1][1]
        /\ estimate.amount_out <= LeftAbove[StartSegment].gives
        /\ OnExampleCurve =>
              /\ estimate.ending_sqrt_price < 200
              /\ estimate.amount_out < LeftAbove[StartSegment].gives

C7_Witness ==
    /\ StopsInside
    /\ OnExampleCurve
    /\ estimate.ending_sqrt_price > 100
    /\ estimate.ending_sqrt_price < 200
    /\ estimate.amount_out > 0
    /\ estimate.amount_out < LeftAbove[StartSegment].gives

====
